---- MODULE Spec2Model ----
(***************************************************************************)
(* Model of examples/python/cvrp.py: the capacitated vehicle routing       *)
(* sample.  main() builds the DataProblem, precomputes the distance table, *)
(* declares the 'Capacity' dimension, asks the routing model for an        *)
(* assignment and hands the answer to print_solution.                      *)
(*                                                                         *)
(* The routing library itself is not part of the sample.  Its declared     *)
(* constraints (every location visited once, cumul(next) = cumul(cur) +    *)
(* demand_evaluator(cur, next), 0 <= cumul <= capacity, start cumul 0) are *)
(* taken from the calls the sample makes; the order in which points are    *)
(* placed follows the cheapest-insertion construction of the design        *)
(* document (section 4.3).                                                 *)
(***************************************************************************)
EXTENDS Integers, Sequences, FiniteSets, TLC

(* ---- bounds of the explored problem instances ---- *)
MaxPoints == 4
MaxVehicles == 2
MaxCapacity == 2
MaxDemand == 2
NumSites == 2

(* ---- DataProblem (cvrp.py 41-103) ---- *)
BlockLocations ==
  << <<4, 4>>,
     <<2, 0>>, <<8, 0>>,
     <<0, 1>>, <<1, 1>>,
     <<5, 2>>, <<7, 2>>,
     <<3, 3>>, <<6, 3>>,
     <<5, 5>>, <<8, 5>>,
     <<1, 6>>, <<2, 6>>,
     <<3, 7>>, <<6, 7>>,
     <<0, 8>>, <<7, 8>> >>

BuiltinDemandsOneLess ==
  << 0, 1, 1, 2, 4, 2, 4, 8, 8, 1, 2, 1, 2, 4, 4, 8, 7 >>

BuiltinDemands ==
  << 0, 1, 1, 2, 4, 2, 4, 8, 8, 1, 2, 1, 2, 4, 4, 8, 8 >>

BlockWidth == 114
BlockHeight == 80
BuiltinCapacity == 15
BuiltinNumVehicles == 4
depot == 0

ToMeters(loc) == << loc[1] * BlockWidth, loc[2] * BlockHeight >>

VARIABLES
  locations,       \* DataProblem._locations : node -> <<x, y>> in meters
  demands,         \* DataProblem._demands   : node -> demand
  capacity,        \* data.vehicle.capacity
  num_vehicles,    \* data.num_vehicles
  distances,       \* CreateDistanceEvaluator._distances, <<>> before it is built
  pc,              \* position in main()
  routes,          \* vehicle -> sequence of visited points (depot ends implicit)
  unrouted,        \* points not yet placed on a route
  load,            \* vehicle -> cumul of the Capacity dimension at the route end
  assignment,      \* "unset", "found" or "None" (SolveWithParameters result)
  steps,           \* insertions made in this run
  vehicle_id,      \* loop variable of print_solution
  plan,            \* vehicle -> printed sequence of <<node, load>>
  route_distance,  \* vehicle -> printed 'Distance of the route'
  route_load,      \* vehicle -> printed 'Load of the route'
  total_distance,  \* print_solution total_distance
  total_load,      \* print_solution total_load
  error,           \* "none" or the exception that ended the run
  run,             \* 1 for the first run on the instance, 2 for the repeat
  first_routes     \* routes produced by the first run

vars == << locations, demands, capacity, num_vehicles, distances, pc, routes,
           unrouted, load, assignment, steps, vehicle_id, plan,
           route_distance, route_load, total_distance, total_load, error,
           run, first_routes >>

dataVars == << locations, demands, capacity, num_vehicles >>
printVars == << vehicle_id, plan, route_distance, route_load,
                total_distance, total_load >>

Points == DOMAIN locations
num_locations == Cardinality(Points)
Vehicles == 0 .. (num_vehicles - 1)
Customers == Points \ {depot}

(* ---- Problem constraints (cvrp.py 108-154) ---- *)
Abs(x) == IF x < 0 THEN -x ELSE x

manhattan_distance_signed(position_1, position_2) ==
  (position_1[1] - position_2[1]) + (position_1[2] - position_2[2])

manhattan_distance(position_1, position_2) ==
  Abs(position_1[1] - position_2[1]) + Abs(position_1[2] - position_2[2])

DistanceTable(locs) ==
  [from_node \in DOMAIN locs |->
     [to_node \in DOMAIN locs |->
        IF from_node = to_node
          THEN 0
          ELSE manhattan_distance(locs[from_node], locs[to_node])]]

distance_evaluator(from_node, to_node) == distances[from_node][to_node]

demand_evaluator_to(from_node, to_node) == demands[to_node]

demand_evaluator(from_node, to_node) == demands[from_node]

\* Node sequence of a route from routing.Start to routing.End.
Path(route) == <<depot>> \o route \o <<depot>>

\* Value of the Capacity dimension's CumulVar at the k-th index of a path:
\* start cumul is zero, slack is zero, transit is the demand callback.
RECURSIVE CumulVar(_, _)
CumulVar(path, k) ==
  IF k = 1
    THEN 0
    ELSE CumulVar(path, k - 1) + demand_evaluator(path[k - 1], path[k])

CapacityOKBeforeEnd(route) ==
  \A k \in 1 .. (Len(Path(route)) - 1) :
     /\ CumulVar(Path(route), k) >= 0
     /\ CumulVar(Path(route), k) <= capacity

\* AddDimension(demand_evaluator, 0, capacity, True, 'Capacity'):
\* every cumul of the route, the one at the end included, is within capacity.
CapacityOK(route) ==
  \A k \in 1 .. Len(Path(route)) :
     /\ CumulVar(Path(route), k) >= 0
     /\ CumulVar(Path(route), k) <= capacity

(* ---- Route construction behind SolveWithParameters (design 4.3) ---- *)
InsertAtOverwrite(route, pos, p) ==
  IF pos = 0
    THEN <<p>> \o route
    ELSE SubSeq(route, 1, pos - 1) \o <<p>> \o SubSeq(route, pos + 1, Len(route))

\* Put p between position pos and pos + 1 of the path (pos = 0: right after
\* the depot departure).
InsertAt(route, pos, p) ==
  SubSeq(route, 1, pos) \o <<p>> \o SubSeq(route, pos + 1, Len(route))

\* distance(r[i], p) + distance(p, r[i+1]) - distance(r[i], r[i+1])
MarginalCost(route, pos, p) ==
  LET path == Path(route)
      a == path[pos + 1]
      b == path[pos + 2]
  IN  distance_evaluator(a, p) + distance_evaluator(p, b)
        - distance_evaluator(a, b)

\* A candidate is <<point, route, position>>.
CandidateCost(c) == MarginalCost(routes[c[2]], c[3], c[1])

IsFeasible(c) ==
  /\ c[1] \in unrouted
  /\ c[2] \in Vehicles
  /\ c[3] \in 0 .. Len(routes[c[2]])
  /\ CapacityOK(InsertAt(routes[c[2]], c[3], c[1]))

NoInsertion == << >>

\* The k-th candidate of the scan: points outermost, then routes, then
\* positions, each in increasing index order.
NumCandidates == num_locations * num_vehicles * num_locations
CandidateAt(k) ==
  << k \div (num_vehicles * num_locations),
     (k \div num_locations) % num_vehicles,
     k % num_locations >>

ImprovesOrTies(cost, best_cost) == cost <= best_cost

\* Only a strictly cheaper candidate replaces the best so far, so among
\* equal costs the first candidate of the scan is kept.
Improves(cost, best_cost) == cost < best_cost

RECURSIVE ScanBest(_, _)
ScanBest(k, best) ==
  IF k = NumCandidates
    THEN best
    ELSE LET c == CandidateAt(k)
         IN  IF IsFeasible(c)
                  /\ (best = NoInsertion
                        \/ Improves(CandidateCost(c), CandidateCost(best)))
               THEN ScanBest(k + 1, c)
               ELSE ScanBest(k + 1, best)

FeasibleInsertions ==
  { c \in unrouted \X Vehicles \X (0 .. (num_locations - 1)) : IsFeasible(c) }

CheapestInsertions ==
  { c \in FeasibleInsertions :
      \A u \in FeasibleInsertions : CandidateCost(c) <= CandidateCost(u) }

\* The insertion the constructor makes next (empty when none is feasible).
SelectInsertion ==
  LET best == ScanBest(0, NoInsertion)
  IN  IF best = NoInsertion THEN {} ELSE {best}

(* ---- Printer (cvrp.py 159-187) ---- *)
\* distance accumulated by the while loop from the k-th index of the path on,
\* one GetArcCostForVehicle per step, the step onto the end node included.
RECURSIVE WalkDistanceNoReturn(_, _)
WalkDistanceNoReturn(path, k) ==
  IF k >= Len(path) - 1
    THEN 0
    ELSE distance_evaluator(path[k], path[k + 1])
           + WalkDistanceNoReturn(path, k + 1)

RECURSIVE WalkDistance(_, _)
WalkDistance(path, k) ==
  IF k = Len(path)
    THEN 0
    ELSE distance_evaluator(path[k], path[k + 1]) + WalkDistance(path, k + 1)

\* ' node Load(load) -> ' for every index of the path, the end node last.
PlanOutput(path) ==
  [k \in 1 .. Len(path) |-> << path[k], CumulVar(path, k) >>]

NoOutput == [v \in Vehicles |-> << >>]
ZeroPerVehicle == [v \in Vehicles |-> 0]

(* ---- main (cvrp.py 192-216) ---- *)
\* Order location of point i when the orders are spread over the first k
\* order locations of the built-in list (k = 1: all orders at one address).
SiteOf(i, k) == BlockLocations[2 + ((i - 1) % k)]

Init ==
  \E n \in 1 .. MaxPoints, nv \in 1 .. MaxVehicles, cap \in 1 .. MaxCapacity :
    \E k \in 1 .. NumSites, dem \in [1 .. (n - 1) -> 0 .. MaxDemand] :
      /\ locations = [i \in 0 .. (n - 1) |->
                        IF i = depot
                          THEN ToMeters(BlockLocations[1])
                          ELSE ToMeters(SiteOf(i, k))]
      /\ demands = [i \in 0 .. (n - 1) |-> IF i = depot THEN 0 ELSE dem[i]]
      /\ capacity = cap
      /\ num_vehicles = nv
      /\ distances = << >>
      /\ pc = "main"
      /\ routes = [v \in 0 .. (nv - 1) |-> << >>]
      /\ unrouted = 1 .. (n - 1)
      /\ load = [v \in 0 .. (nv - 1) |-> 0]
      /\ assignment = "unset"
      /\ steps = 0
      /\ vehicle_id = 0
      /\ plan = [v \in 0 .. (nv - 1) |-> << >>]
      /\ route_distance = [v \in 0 .. (nv - 1) |-> 0]
      /\ route_load = [v \in 0 .. (nv - 1) |-> 0]
      /\ total_distance = 0
      /\ total_load = 0
      /\ error = "none"
      /\ run = 1
      /\ first_routes = [v \in 0 .. (nv - 1) |-> << >>]

\* CreateDistanceEvaluator(data): the one-time precomputation.
CreateDistanceEvaluator ==
  /\ pc = "main"
  /\ distances' = DistanceTable(locations)
  /\ pc' = "solve"
  /\ UNCHANGED << dataVars, routes, unrouted, load, assignment, steps,
                  printVars, error, run, first_routes >>

\* One construction step: the selected point goes into the selected route.
Insert ==
  /\ pc = "solve"
  /\ unrouted # {}
  /\ \E c \in SelectInsertion :
        /\ routes' = [routes EXCEPT ![c[2]] = InsertAt(@, c[3], c[1])]
        /\ unrouted' = unrouted \ {c[1]}
        /\ load' = [load EXCEPT ![c[2]] = @ + demands[c[1]]]
  /\ steps' = steps + 1
  /\ UNCHANGED << dataVars, distances, pc, assignment, printVars, error,
                  run, first_routes >>

\* SolveWithParameters returns: an assignment when every point is routed,
\* None when points remain and none of them can be inserted.
SolveReturn ==
  /\ pc = "solve"
  /\ \/ unrouted = {} /\ assignment' = "found"
     \/ unrouted # {} /\ SelectInsertion = {} /\ assignment' = "None"
  /\ pc' = "print"
  /\ UNCHANGED << dataVars, distances, routes, unrouted, load, steps,
                  printVars, error, run, first_routes >>

\* print_solution is entered with whatever SolveWithParameters returned;
\* assignment.ObjectiveValue() on None raises AttributeError.
PrintObjective ==
  /\ pc = "print"
  /\ IF assignment = "None"
       THEN /\ pc' = "crashed"
            /\ error' = "AttributeError"
            /\ UNCHANGED << vehicle_id, total_distance, total_load >>
       ELSE /\ pc' = "print_routes"
            /\ error' = error
            /\ vehicle_id' = 0
            /\ total_distance' = 0
            /\ total_load' = 0
  /\ UNCHANGED << dataVars, distances, routes, unrouted, load, assignment,
                  steps, plan, route_distance, route_load, run, first_routes >>

\* One iteration of 'for vehicle_id in xrange(data.num_vehicles)'.
PrintRoute ==
  /\ pc = "print_routes"
  /\ vehicle_id < num_vehicles
  /\ LET path == Path(routes[vehicle_id])
         out == PlanOutput(path)
         distance == WalkDistance(path, 1)
         end_load == out[Len(out)][2]
     IN  /\ plan' = [plan EXCEPT ![vehicle_id] = out]
         /\ route_distance' = [route_distance EXCEPT ![vehicle_id] = distance]
         /\ route_load' = [route_load EXCEPT ![vehicle_id] = end_load]
         /\ total_distance' = total_distance + distance
         /\ total_load' = total_load + end_load
  /\ vehicle_id' = vehicle_id + 1
  /\ UNCHANGED << dataVars, distances, pc, routes, unrouted, load,
                  assignment, steps, error, run, first_routes >>

\* The two trailing 'Total ...' lines.
PrintTotals ==
  /\ pc = "print_routes"
  /\ vehicle_id = num_vehicles
  /\ pc' = "done"
  /\ UNCHANGED << dataVars, distances, routes, unrouted, load, assignment,
                  steps, printVars, error, run, first_routes >>

\* The program is started once more on the same DataProblem.
Rerun ==
  /\ pc \in {"done", "crashed"}
  /\ run = 1
  /\ run' = 2
  /\ first_routes' = routes
  /\ distances' = << >>
  /\ pc' = "main"
  /\ routes' = NoOutput
  /\ unrouted' = Customers
  /\ load' = ZeroPerVehicle
  /\ assignment' = "unset"
  /\ steps' = 0
  /\ vehicle_id' = 0
  /\ plan' = NoOutput
  /\ route_distance' = ZeroPerVehicle
  /\ route_load' = ZeroPerVehicle
  /\ total_distance' = 0
  /\ total_load' = 0
  /\ error' = "none"
  /\ UNCHANGED dataVars

Next ==
  \/ CreateDistanceEvaluator
  \/ Insert
  \/ SolveReturn
  \/ PrintObjective
  \/ PrintRoute
  \/ PrintTotals
  \/ Rerun

Spec == Init /\ [][Next]_vars

(* ---- The built-in instance under any assignment the constraints allow ---- *)
\* Only the per-vehicle end cumul of an assignment is kept here: the load
\* print_solution reports at a route end does not depend on the visiting
\* order, and every location has to be on exactly one route.
RECURSIVE SumOver(_, _)
SumOver(f, S) ==
  IF S = {}
    THEN 0
    ELSE LET x == CHOOSE y \in S : TRUE
         IN  f[x] + SumOver(f, S \ {x})

InitBuiltin ==
  /\ locations = [i \in 0 .. (Len(BlockLocations) - 1) |->
                    ToMeters(BlockLocations[i + 1])]
  /\ demands = [i \in 0 .. (Len(BuiltinDemands) - 1) |-> BuiltinDemands[i + 1]]
  /\ capacity = BuiltinCapacity
  /\ num_vehicles = BuiltinNumVehicles
  /\ distances = << >>
  /\ pc = "main"
  /\ routes = [v \in 0 .. (BuiltinNumVehicles - 1) |-> << >>]
  /\ unrouted = 1 .. (Len(BlockLocations) - 1)
  /\ load = [v \in 0 .. (BuiltinNumVehicles - 1) |-> 0]
  /\ assignment = "unset"
  /\ steps = 0
  /\ vehicle_id = 0
  /\ plan = [v \in 0 .. (BuiltinNumVehicles - 1) |-> << >>]
  /\ route_distance = [v \in 0 .. (BuiltinNumVehicles - 1) |-> 0]
  /\ route_load = [v \in 0 .. (BuiltinNumVehicles - 1) |-> 0]
  /\ total_distance = 0
  /\ total_load = 0
  /\ error = "none"
  /\ run = 1
  /\ first_routes = [v \in 0 .. (BuiltinNumVehicles - 1) |-> << >>]

\* The next location is given to any vehicle whose end cumul stays within
\* the capacity of the dimension.
AssignVehicle ==
  /\ pc = "solve"
  /\ unrouted # {}
  /\ LET p == CHOOSE q \in unrouted : \A o \in unrouted : q <= o
     IN  \E v \in Vehicles :
           /\ load[v] + demands[p] <= capacity
           /\ load' = [load EXCEPT ![v] = @ + demands[p]]
           /\ unrouted' = unrouted \ {p}
  /\ steps' = steps + 1
  /\ UNCHANGED << dataVars, distances, pc, routes, assignment, printVars,
                  error, run, first_routes >>

AssignmentFound ==
  /\ pc = "solve"
  /\ unrouted = {}
  /\ assignment' = "found"
  /\ pc' = "print"
  /\ UNCHANGED << dataVars, distances, routes, unrouted, load, steps,
                  printVars, error, run, first_routes >>

\* print_solution, reduced to the loads: 'Load of the route' is the cumul at
\* the route end, total_load their sum.
PrintLoads ==
  /\ pc = "print"
  /\ assignment = "found"
  /\ route_load' = load
  /\ total_load' = SumOver(load, Vehicles)
  /\ vehicle_id' = num_vehicles
  /\ pc' = "done"
  /\ UNCHANGED << dataVars, distances, routes, unrouted, load, assignment,
                  steps, plan, route_distance, total_distance, error, run,
                  first_routes >>

NextBuiltin ==
  \/ CreateDistanceEvaluator
  \/ AssignVehicle
  \/ AssignmentFound
  \/ PrintLoads

SpecBuiltin == InitBuiltin /\ [][NextBuiltin]_vars

(* ======================= Properties ======================= *)
Max(a, b) == IF a >= b THEN a ELSE b
Min(a, b) == IF a <= b THEN a ELSE b

\* Positions <<vehicle, k>> of the working routes that hold point p.
RoutePositionsOf(p) ==
  { vk \in Vehicles \X (1 .. num_locations) :
      vk[2] <= Len(routes[vk[1]]) /\ routes[vk[1]][vk[2]] = p }

\* Positions <<vehicle, k>> of the printed plans that show point p.
PlanPositionsOf(p) ==
  { vk \in Vehicles \X (1 .. (num_locations + 2)) :
      vk[2] <= Len(plan[vk[1]]) /\ plan[vk[1]][vk[2]][1] = p }

\* Total demand of the points of a sequence of nodes.
DemandOf(nodes) == SumOver([k \in 1 .. Len(nodes) |-> demands[nodes[k]]],
                           1 .. Len(nodes))

\* Manhattan distance between two nodes, from the stored coordinates.
CoordinateDistance(i, j) ==
  (Max(locations[i][1], locations[j][1]) - Min(locations[i][1], locations[j][1]))
  + (Max(locations[i][2], locations[j][2]) - Min(locations[i][2], locations[j][2]))

\* Sum of the legs of a path, the leg back to the depot included.
LegSum(path) ==
  SumOver([k \in 1 .. (Len(path) - 1) |-> CoordinateDistance(path[k], path[k + 1])],
          1 .. (Len(path) - 1))

\* C1: when construction succeeds, every non-depot point is on exactly one
\* position of exactly one route, the routes hold nothing else, and the
\* printed plans show every such point exactly once.
C1_EveryPointOnce ==
  /\ assignment = "found" =>
        /\ \A p \in Customers : Cardinality(RoutePositionsOf(p)) = 1
        /\ \A v \in Vehicles : \A k \in 1 .. Len(routes[v]) :
              routes[v][k] \in Customers
  /\ pc = "done" =>
        \A p \in Customers : Cardinality(PlanPositionsOf(p)) = 1

C1_Witness ==
  /\ pc = "done"
  /\ assignment = "found"
  /\ num_locations >= 4
  /\ \E v, w \in Vehicles : v # w /\ Len(routes[v]) >= 1 /\ Len(routes[w]) >= 1

\* C2: in every state, on every route, the cumulative load starts at 0, never
\* decreases along the route and never exceeds the capacity; the demand
\* carried by a route (what the insertions put on it) stays within capacity.
C2_LoadWithinCapacity ==
  \A v \in Vehicles :
    LET path == Path(routes[v])
    IN  /\ CumulVar(path, 1) = 0
        /\ \A k \in 1 .. Len(path) : CumulVar(path, k) <= capacity
        /\ \A k \in 1 .. (Len(path) - 1) :
              CumulVar(path, k) <= CumulVar(path, k + 1)
        /\ DemandOf(routes[v]) <= capacity
        /\ load[v] = DemandOf(routes[v])

C2_Witness ==
  /\ pc = "solve"
  /\ \E v \in Vehicles :
        /\ Len(routes[v]) >= 2
        /\ load[v] = capacity
        /\ \E p \in unrouted : demands[p] > 0 /\ demands[p] <= capacity

\* C3 (as stated): with a point whose demand exceeds the capacity no route is
\* ever changed and the run ends with InvalidInstance.
C3_InvalidInstanceRaised ==
  (\E p \in Points : demands[p] > capacity) =>
    /\ \A v \in Vehicles : routes[v] = << >>
    /\ steps = 0
    /\ pc \in {"done", "crashed"} => error = "InvalidInstance"
    /\ error # "AttributeError"

\* C4 (as stated): a run ends with every point routed feasibly or with a
\* reported infeasibility error; print_solution never runs without a
\* complete assignment and the run never crashes.
C4_NoCrashOnInfeasible ==
  /\ pc \in {"print_routes", "done", "crashed"} =>
        \/ assignment = "found" /\ unrouted = {}
        \/ error = "ConstructionInfeasible"
  /\ pc = "crashed" => error = "ConstructionInfeasible"
  /\ error # "AttributeError"

\* C5: once built, the distance table holds the Manhattan distance of the
\* stored coordinates for every pair, 0 on the diagonal, nothing negative,
\* and no step of the run changes it.
C5_TableCorrect ==
  distances # << >> =>
    \A i \in Points : \A j \in Points :
      /\ distance_evaluator(i, j) = CoordinateDistance(i, j)
      /\ distance_evaluator(i, i) = 0
      /\ distance_evaluator(i, j) >= 0

C5_DistanceOracle ==
  /\ []C5_TableCorrect
  /\ [][(distances # << >> /\ run' = run) => distances' = distances]_vars

C5_Witness ==
  /\ pc = "done"
  /\ distances # << >>
  /\ \E i \in Points : \E j \in Points :
        i < j /\ j # depot /\ i # depot /\ distance_evaluator(i, j) > 0

\* C6: in a finished report the total distance is the sum of the printed
\* route distances, each of them the sum of the legs of its route with the
\* return leg, and the total load is the sum of the printed route loads,
\* each of them the demand carried by its route.
C6_TotalsAreSums ==
  pc = "done" =>
    /\ total_distance = SumOver(route_distance, Vehicles)
    /\ \A v \in Vehicles : route_distance[v] = LegSum(Path(routes[v]))
    /\ total_load = SumOver(route_load, Vehicles)
    /\ \A v \in Vehicles : route_load[v] = DemandOf(routes[v])

C6_Witness ==
  /\ pc = "done"
  /\ total_distance > 0
  /\ total_load > 0
  /\ \E v, w \in Vehicles : v # w /\ route_distance[v] > 0 /\ route_distance[w] > 0

C8_LoadInclusive ==
  \A v \in Vehicles : \A k \in 1 .. Len(plan[v]) :
    plan[v][k][2] = DemandOf([j \in 1 .. k |-> plan[v][j][1]])

\* C8 (amended): the load printed at a position counts the demands of the
\* points strictly before that position; the demand of the point printed
\* there is first counted at the next position, and the load printed at the
\* closing depot is the demand of the whole route.
C8_LoadExclusive ==
  \A v \in Vehicles : \A k \in 1 .. Len(plan[v]) :
    /\ plan[v][k][2] = DemandOf([j \in 1 .. (k - 1) |-> plan[v][j][1]])
    /\ k = Len(plan[v]) => plan[v][k][2] = DemandOf(routes[v])

C8_Witness ==
  /\ pc = "done"
  /\ \E v \in Vehicles : \E k \in 2 .. (Len(plan[v]) - 1) :
        /\ demands[plan[v][k][1]] > 0
        /\ plan[v][k + 1][2] = plan[v][k][2] + demands[plan[v][k][1]]
        /\ Len(plan[v]) >= 4

\* C9: every construction step inserts a feasible <<point, route, position>>
\* whose marginal cost is minimal among all feasible insertions, the first in
\* (point, route, position) order among those of equal cost; the step takes
\* exactly that point out of the unrouted set, and a run makes at most N-1
\* insertions.
LexBefore(c, u) ==
  \/ c[1] < u[1]
  \/ c[1] = u[1] /\ c[2] < u[2]
  \/ c[1] = u[1] /\ c[2] = u[2] /\ c[3] <= u[3]

C9_Step ==
  (pc = "solve" /\ routes' # routes) =>
    \E c \in FeasibleInsertions :
      /\ routes' = [routes EXCEPT ![c[2]] = InsertAt(@, c[3], c[1])]
      /\ unrouted' = unrouted \ {c[1]}
      /\ Cardinality(unrouted') = Cardinality(unrouted) - 1
      /\ steps' = steps + 1
      /\ \A u \in FeasibleInsertions :
            \/ CandidateCost(c) < CandidateCost(u)
            \/ CandidateCost(c) = CandidateCost(u) /\ LexBefore(c, u)

C10_BuiltinLoads ==
  /\ assignment = "found" =>
        \A v \in Vehicles : load[v] = BuiltinCapacity /\ load[v] > 0
  /\ pc = "done" =>
        /\ \A v \in Vehicles : route_load[v] = 15
        /\ total_load = 60

C10_Witness ==
  /\ pc = "done"
  /\ num_locations = 17
  /\ num_vehicles = 4
  /\ total_load = 60

====
